---- MODULE Spec2Model ----
(***************************************************************************)
(* A model of MixClient (src/src/MixClient.js): the constructor's provider *)
(* selection, doSearch, getBlockchainName, getSystemStats, updateBlocks    *)
(* and getBlocks, as promise state machines.  A promise is a status        *)
(* ("pending", "resolved", "rejected") with a value; an action is one      *)
(* synchronous run of JavaScript: a public method up to its return, or the *)
(* settlement of one provider promise together with the handlers that run  *)
(* because of it.                                                          *)
(***************************************************************************)
EXTENDS Integers, Sequences, FiniteSets, TLC

VARIABLES
    client,     \* the MixClient object: _web3, _systemStats, _mixSearch
    ctorIn,     \* the inputs the constructor ran with
    search,     \* the doSearch call: its three lookups and its promise
    nSearch,    \* number of doSearch calls made
    ident,      \* the getBlockchainName call: its block fetch and its promise
    nIdent,     \* number of getBlockchainName calls made
    cache,      \* MixSystemStats' latest-blocks window
    calls,      \* the getSystemStats / updateBlocks calls in the model, by slot
    nCalls,     \* number of getSystemStats / updateBlocks calls made
    blocksCall, \* the getBlocks call
    nBlocks,    \* number of getBlocks calls made
    watch       \* the watchNetwork subscription: events delivered, handlers invoked

vars == <<client, ctorIn, search, nSearch, ident, nIdent, cache, calls, nCalls, blocksCall, nBlocks, watch>>

\* JavaScript null / undefined, for strings, entities, errors and window references
Null == "null"
\* typeof x === 'undefined' for a global name x
Undeclared == "undeclared"

-----------------------------------------------------------------------------
(* Bounds *)

MaxSearches == 2
MaxIdentify == 2
MaxCalls == 3
MaxBlocksCalls == 2
MaxEvents == 3

-----------------------------------------------------------------------------
(* The constructor, src/src/MixClient.js:35-78 *)

\* A web3 value: a provider object (where it came from, what isConnected()
\* answers), or null, or an undeclared global, or the throw of connect().
Web3(s, c) == [src |-> s, connected |-> c]
NullWeb3 == Web3("null", FALSE)
UndeclaredWeb3 == Web3("undeclared", FALSE)
ConnectThrows == Web3("throws", FALSE)
ConnectNotCalled == Web3("notCalled", FALSE)

\* JavaScript truthiness of the values the constructor tests.
TruthyStr(v) == v # Null /\ v # ""
TruthyWeb3(w) == w.src \in {"param", "http", "ambient"}

\* The nodeURI parameter: absent, the empty string, or a URI.
NodeURIs == {Null, "", "http://param"}
\* localStorage: undeclared (as in tests), or declared with item 'mix-node-uri'
\* absent (getItem gives null), empty, or a URI.
Storages == {Undeclared, Null, "", "http://stored"}
\* The web3Object parameter.
Web3Params == {NullWeb3, Web3("param", TRUE), Web3("param", FALSE)}
\* The global web3 (Metamask): undeclared, declared but null, or a provider.
Ambients == {UndeclaredWeb3, NullWeb3, Web3("ambient", TRUE), Web3("ambient", FALSE)}
\* What MixHTTPConnector.connect(uri) does: throws when the connection fails,
\* or returns a web3 object, connected or not.
ConnectOutcomes == {ConnectThrows, Web3("http", TRUE), Web3("http", FALSE)}

NoClient == [phase |-> "none", web3 |-> NullWeb3, systemStats |-> FALSE, mixSearch |-> FALSE]

\* lines 44-48: the stored URI is read only when no URI parameter was given
EffectiveURI(nodeURI, storage) ==
    IF ~TruthyStr(nodeURI) /\ storage # Undeclared THEN storage ELSE nodeURI

\* lines 51-60: does the constructor call MixHTTPConnector.connect ?
ConnectCalled(nodeURI, web3Object, storage) ==
    TruthyStr(EffectiveURI(nodeURI, storage)) /\ ~TruthyWeb3(web3Object)

\* lines 50-67 with Metamask tried before the node URI
SelectWeb3AmbientFirst(nodeURI, web3Object, storage, ambient, conn) ==
    LET w1 == IF TruthyWeb3(web3Object) THEN web3Object ELSE NullWeb3
        w2 == IF ~TruthyWeb3(w1) /\ ambient # UndeclaredWeb3 THEN ambient ELSE w1
        w3 == IF ConnectCalled(nodeURI, web3Object, storage) /\ ~TruthyWeb3(w2)
              THEN conn ELSE w2
    IN  w3

\* lines 50-67: this._web3 when the connection test of line 70 is reached
\* (connect did not throw).
SelectWeb3(nodeURI, web3Object, storage, ambient, conn) ==
    LET w1 == IF TruthyWeb3(web3Object) THEN web3Object ELSE NullWeb3
        w2 == IF ConnectCalled(nodeURI, web3Object, storage) THEN conn ELSE w1
        w3 == IF ~TruthyWeb3(w2) /\ ambient # UndeclaredWeb3 THEN ambient ELSE w2
    IN  w3

\* line 70 without the isConnected() test
ConnectionTestSkipsIsConnected(w) == TruthyWeb3(w)

\* line 70: the connection test
PassesConnectionTest(w) == TruthyWeb3(w) /\ w.connected

\* lines 35-78: the object the constructor leaves behind, or the throw.
NewClient(nodeURI, web3Object, storage, ambient, conn) ==
    IF ConnectCalled(nodeURI, web3Object, storage) /\ conn = ConnectThrows
    THEN [phase |-> "threw", web3 |-> NullWeb3, systemStats |-> FALSE, mixSearch |-> FALSE]
    ELSE LET w == SelectWeb3(nodeURI, web3Object, storage, ambient, conn)
         IN  IF ~PassesConnectionTest(w)
             THEN [phase |-> "threw", web3 |-> w, systemStats |-> FALSE, mixSearch |-> FALSE]
             ELSE [phase |-> "constructed", web3 |-> w, systemStats |-> TRUE, mixSearch |-> TRUE]

\* uri is the argument MixHTTPConnector.connect was called with, if it was.
NoCtorIn == [nodeURI |-> Null, web3Object |-> NullWeb3, storage |-> Undeclared,
             ambient |-> UndeclaredWeb3, conn |-> ConnectNotCalled, uri |-> Null]

\* new MixClient(nodeURI, web3Object) in an environment (storage, ambient, conn)
Construct(nodeURI, web3Object, storage, ambient, conn) ==
    /\ client.phase = "none"
    /\ client' = NewClient(nodeURI, web3Object, storage, ambient, conn)
    /\ ctorIn' = [nodeURI |-> nodeURI, web3Object |-> web3Object, storage |-> storage,
                  ambient |-> ambient,
                  conn |-> IF ConnectCalled(nodeURI, web3Object, storage)
                           THEN conn ELSE ConnectNotCalled,
                  uri |-> IF ConnectCalled(nodeURI, web3Object, storage)
                          THEN EffectiveURI(nodeURI, storage) ELSE Null]
    /\ UNCHANGED <<search, nSearch, ident, nIdent, cache, calls, nCalls, blocksCall, nBlocks, watch>>

\* The client the asynchronous operations run on: new MixClient(null, web3Object)
\* with a connected web3Object, as a test constructs it.
TestCtorIn == [NoCtorIn EXCEPT !.web3Object = Web3("param", TRUE)]
TestClient == NewClient(Null, Web3("param", TRUE), Undeclared, UndeclaredWeb3, NullWeb3)

-----------------------------------------------------------------------------
(* Promises *)

NoPromise == [st |-> "none", val |-> Null]
Pending == [st |-> "pending", val |-> Null]
Resolved(v) == [st |-> "resolved", val |-> v]
Rejected(e) == [st |-> "rejected", val |-> e]
Settled(p) == p.st \in {"resolved", "rejected"}

-----------------------------------------------------------------------------
(* doSearch, src/src/MixClient.js:168-203 *)

Queries == {"q1", "q2"}
\* What a lookup resolves with: an entity, or null for not-found.
Entities == {"e1", "e2"}
Lookups == {"block", "account", "transaction"}

\* Outcomes of a MixSearch lookup promise: found, not-found, transport failure.
LookupOutcomes(l) ==
    {Resolved(v) : v \in Entities \cup {Null}} \cup {Rejected("error:" \o l)}

NoResult == [block |-> Null, account |-> Null, transaction |-> Null]

NoSearch == [status |-> "idle", query |-> Null, lk |-> [l \in Lookups |-> NoPromise],
             result |-> NoResult, error |-> Null]

\* lines 170-176: the three lookups are issued, and the promise is returned
DoSearch(query) ==
    /\ client.phase = "constructed"
    /\ search.status # "pending"
    /\ nSearch < MaxSearches
    /\ nSearch' = nSearch + 1
    /\ search' = [NoSearch EXCEPT !.status = "pending", !.query = query,
                                  !.lk = [l \in Lookups |-> Pending]]
    /\ UNCHANGED <<client, ctorIn, ident, nIdent, cache, calls, nCalls, blocksCall, nBlocks, watch>>

\* lines 182-188 with two slots exchanged
SearchResultSwapped(lk) ==
    [block |-> lk["block"].val, account |-> lk["transaction"].val,
     transaction |-> lk["account"].val]

\* lines 182-188 with only the slots that hold something
SearchResultOmitsEmpty(lk) ==
    [l \in {k \in Lookups : lk[k].val # Null} |-> lk[l].val]

\* lines 182-188: the result object, from Promise.all's array in call order
SearchResult(lk) ==
    [block |-> lk["block"].val, account |-> lk["account"].val,
     transaction |-> lk["transaction"].val]

\* line 179 as a join that a not-found result ends at once
PromiseAllStopsAtNotFound(lk, last) ==
    IF lk[last].st = "rejected" THEN Rejected(lk[last].val)
    ELSE IF lk[last].val = Null \/ \A l \in Lookups : lk[l].st = "resolved"
    THEN Resolved(lk)
    ELSE Pending

\* line 179: Promise.all(promises), looked at when the lookup `last` has just
\* settled: rejected by the first rejection, resolved when all are resolved.
PromiseAll(lk, last) ==
    IF lk[last].st = "rejected" THEN Rejected(lk[last].val)
    ELSE IF \A l \in Lookups : lk[l].st = "resolved" THEN Resolved(lk)
    ELSE Pending

\* lines 179-197: a lookup settles; Promise.all's handlers run if it settles too.
\* A promise settles once: later settlements change nothing.
LookupSettles(l, out) ==
    /\ search.lk[l].st = "pending"
    /\ LET lk == [search.lk EXCEPT ![l] = out]
           all == PromiseAll(lk, l)
       IN  search' =
             IF search.status # "pending" \/ all.st = "pending"
             THEN [search EXCEPT !.lk = lk]
             ELSE IF all.st = "resolved"
             THEN [search EXCEPT !.lk = lk, !.status = "resolved",
                                 !.result = SearchResult(all.val)]
             ELSE [search EXCEPT !.lk = lk, !.status = "rejected", !.error = all.val]
    /\ UNCHANGED <<client, ctorIn, nSearch, ident, nIdent, cache, calls, nCalls, blocksCall, nBlocks, watch>>

\* line 171
GetBlockSettles == \E out \in LookupOutcomes("block") : LookupSettles("block", out)
\* line 172
GetBalanceSettles == \E out \in LookupOutcomes("account") : LookupSettles("account", out)
\* line 173
GetTransactionSettles ==
    \E out \in LookupOutcomes("transaction") : LookupSettles("transaction", out)

-----------------------------------------------------------------------------
(* getBlockchainName, src/src/MixClient.js:87-118 *)

\* line 89
IDENTIFYING_BLOCK == 1920001

HashMix == "0x4fa57903dad05875ddf78030c16b5da886f7d81714cf66946a4c02566dbb2af5"
HashEthereum == "0x87b2bc3f12e3ded808c6d4b9b528381fa2a7e95ff2368ba93191a9495daa7f50"
HashClassic == "0xab7668dfd3bedcf9da505d69306e8fd12ad78116429cf8880a9942c6f0605b60"

\* lines 90-94: the registry
blockchainHashes ==
    (HashMix :> "Mix") @@ (HashEthereum :> "Ethereum") @@ (HashClassic :> "Ethereum Classic")

\* Hashes a node may report for the block: the registry's, and two others.
BlockHashes == DOMAIN blockchainHashes \cup {"0x00000000000000000000000000000000", "0xffff"}

\* Outcomes of getBlock(IDENTIFYING_BLOCK): a block (its hash), null when the
\* chain has no such block, or a transport failure.
BlockFetchOutcomes ==
    {Resolved(h) : h \in BlockHashes \cup {Null}} \cup {Rejected("error:block")}

NoIdent == [status |-> "idle", height |-> 0, fetch |-> NoPromise, result |-> Null,
            error |-> Null]

\* lines 96-101: the promise is created and getBlock(IDENTIFYING_BLOCK) is issued.
\* A new call is modelled once the previous call's fetch has settled: nothing
\* of the previous call can run after that.
GetBlockchainName ==
    /\ client.phase = "constructed"
    /\ ident.fetch.st # "pending"
    /\ nIdent < MaxIdentify
    /\ nIdent' = nIdent + 1
    /\ ident' = [NoIdent EXCEPT !.status = "pending", !.height = IDENTIFYING_BLOCK,
                                !.fetch = Pending]
    /\ UNCHANGED <<client, ctorIn, search, nSearch, cache, calls, nCalls, blocksCall, nBlocks, watch>>

\* lines 104-110 without the 'undefined' test: the registry's value, or undefined
NameOfHashNoSentinel(hash) ==
    IF hash \in DOMAIN blockchainHashes THEN blockchainHashes[hash] ELSE Null

\* lines 104-110: the value the promise is resolved with
NameOfHash(hash) ==
    IF hash \in DOMAIN blockchainHashes THEN blockchainHashes[hash] ELSE "Unknown blockchain"

\* lines 101-113: the block fetch settles.  The only handler is the fulfilment
\* handler; it reads block.hash, which throws a TypeError inside the handler
\* when block is null.  Neither that throw nor a rejection of getBlock reaches
\* resolve or reject: the promise stays pending.
IdentifyingBlockSettles(out) ==
    /\ ident.fetch.st = "pending"
    /\ ident' =
         IF out.st = "resolved" /\ out.val # Null
         THEN [ident EXCEPT !.fetch = out, !.status = "resolved",
                            !.result = NameOfHash(out.val)]
         ELSE [ident EXCEPT !.fetch = out]
    /\ UNCHANGED <<client, ctorIn, search, nSearch, nIdent, cache, calls, nCalls, blocksCall, nBlocks, watch>>

-----------------------------------------------------------------------------
(* Block windows and the derived metrics of MixSystemStats *)

\* A window is a reference to an array of blocks, oldest first.
Windows == {"W1", "W2"}

BlocksOf(w) ==
    CASE w = "W1" -> <<[difficulty |-> 10, timestamp |-> 100],
                       [difficulty |-> 20, timestamp |-> 104],
                       [difficulty |-> 30, timestamp |-> 110]>>
      [] w = "W2" -> <<[difficulty |-> 40, timestamp |-> 200],
                       [difficulty |-> 60, timestamp |-> 205]>>
      [] OTHER -> <<>>

RECURSIVE SumDifficulty(_)
SumDifficulty(bs) ==
    IF bs = <<>> THEN 0 ELSE Head(bs).difficulty + SumDifficulty(Tail(bs))

\* getAverageDifficulty(latestBlocks): the arithmetic mean of the difficulties
\* (the windows above have integral means)
getAverageDifficulty(w) ==
    LET bs == BlocksOf(w) IN IF bs = <<>> THEN 0 ELSE SumDifficulty(bs) \div Len(bs)

\* getBlockTimes(latestBlocks): the timestamp delta of each block to its predecessor
getBlockTimes(w) ==
    LET bs == BlocksOf(w)
    IN  [i \in 1..(IF bs = <<>> THEN 0 ELSE Len(bs) - 1) |->
            bs[i + 1].timestamp - bs[i].timestamp]

\* getHashRate(): it takes no window and reads the one MixSystemStats holds,
\* here the parameter: latest difficulty by latest block time, zero when there
\* are fewer than two blocks (or no window yet) or the latest block time is zero.
getHashRate(w) ==
    LET bs == BlocksOf(w)
        n == Len(bs)
    IN  IF n < 2 THEN 0
        ELSE IF bs[n].timestamp = bs[n - 1].timestamp THEN 0
        ELSE bs[n].difficulty \div (bs[n].timestamp - bs[n - 1].timestamp)

-----------------------------------------------------------------------------
(* getSystemStats and updateBlocks, src/src/MixClient.js:215-281 *)

\* Two calls are followed at a time; a slot is free again once its call has
\* nothing left to run.
CallIds == {1, 2}

States == {"connected", "notConnected"}
StateOutcomes == {Resolved(s) : s \in States} \cup {Rejected("error:state")}
PeerOutcomes == {Resolved("peers:5"), Rejected("error:peers")}
GasOutcomes == {Resolved("gas:7"), Rejected("error:gas")}
LatestBlocksOutcomes == {Resolved(w) : w \in Windows} \cup {Rejected("error:blocks")}

NoStats == [state |-> Null, peerCount |-> Null, gasPrice |-> Null, latestBlocks |-> Null,
            difficulty |-> 0, blockTimes |-> <<>>, hashRate |-> 0]

\* A call: how it was made, its argument, the provider promises it issued,
\* and the promise it returned (status, stats or error).  Two history fields:
\* held is the window MixSystemStats held when the stats were filled, and
\* overlapped records that updateBlocks ran while the call was in flight.
NoCall == [status |-> "idle", via |-> Null, arg |-> Null,
           state |-> NoPromise, peer |-> NoPromise, gas |-> NoPromise,
           blocks |-> NoPromise, stats |-> NoStats, error |-> Null,
           held |-> Null, overlapped |-> FALSE]

\* lines 215-231 with the fan-out issued beside getState(), not after it
StartedCallFanOutAtOnce(how, latestBlocks) ==
    [NoCall EXCEPT !.status = "pending", !.via = how, !.arg = latestBlocks,
                   !.state = Pending, !.peer = Pending, !.gas = Pending]

\* lines 215-223: the promise is created and getState() is issued
StartedCall(how, latestBlocks) ==
    [NoCall EXCEPT !.status = "pending", !.via = how, !.arg = latestBlocks,
                   !.state = Pending]

\* A call none of whose provider promises is pending: no handler of it will run.
Quiescent(call) ==
    /\ call.status # "idle"
    /\ call.state.st # "pending"
    /\ call.peer.st # "pending"
    /\ call.gas.st # "pending"
    /\ call.blocks.st # "pending"

\* The slot a new call takes: slot 1 first, then any slot whose call is over.
Fresh(c) ==
    /\ nCalls < MaxCalls
    /\ IF calls[c].status = "idle"
       THEN IF c = 1 THEN TRUE ELSE calls[1].status # "idle"
       ELSE Quiescent(calls[c])

\* getSystemStats(latestBlocks), latestBlocks null when omitted
GetSystemStats(c, latestBlocks) ==
    /\ client.phase = "constructed"
    /\ Fresh(c)
    /\ nCalls' = nCalls + 1
    /\ calls' = [calls EXCEPT ![c] = StartedCall("getSystemStats", latestBlocks)]
    /\ UNCHANGED <<client, ctorIn, search, nSearch, ident, nIdent, cache, blocksCall, nBlocks, watch>>

InFlight(call) ==
    /\ call.status = "pending"
    /\ \/ call.state.st = "pending"
       \/ call.state.st = "resolved"

\* updateBlocks with the window not passed on to getSystemStats
UpdateBlocksDropsWindow(c, latestBlocks) ==
    /\ client.phase = "constructed"
    /\ Fresh(c)
    /\ cache' = latestBlocks
    /\ calls' = [d \in CallIds |->
                    IF d = c THEN StartedCall("updateBlocks", Null)
                    ELSE IF InFlight(calls[d]) THEN [calls[d] EXCEPT !.overlapped = TRUE]
                    ELSE calls[d]]
    /\ nCalls' = nCalls + 1
    /\ UNCHANGED <<client, ctorIn, search, nSearch, ident, nIdent, blocksCall, nBlocks, watch>>

\* lines 274-281: updateBlocks(latestBlocks): setLatestBlocks, then getSystemStats
UpdateBlocks(c, latestBlocks) ==
    /\ client.phase = "constructed"
    /\ Fresh(c)
    /\ cache' = latestBlocks
    /\ calls' = [d \in CallIds |->
                    IF d = c THEN StartedCall("updateBlocks", latestBlocks)
                    ELSE IF InFlight(calls[d]) THEN [calls[d] EXCEPT !.overlapped = TRUE]
                    ELSE calls[d]]
    /\ nCalls' = nCalls + 1
    /\ UNCHANGED <<client, ctorIn, search, nSearch, ident, nIdent, blocksCall, nBlocks, watch>>

\* lines 223-235 and 262: getState() settles.  Its fulfilment handler stores
\* the state and issues the fan-out, whatever the state says; there is no
\* rejection handler, so a rejection leaves the returned promise pending.
StateSettles(c, out) ==
    /\ calls[c].state.st = "pending"
    /\ calls' = [calls EXCEPT ![c] =
         IF out.st = "resolved"
         THEN [@ EXCEPT !.state = out, !.stats.state = out.val,
                        !.peer = Pending, !.gas = Pending,
                        !.blocks = IF calls[c].arg = Null THEN Pending ELSE NoPromise]
         ELSE [@ EXCEPT !.state = out]]
    /\ UNCHANGED <<client, ctorIn, search, nSearch, ident, nIdent, cache, nCalls, blocksCall, nBlocks, watch>>

\* line 237 as a join that waits for every promise and resolves regardless
FanOutAllSettled(call, last) ==
    IF /\ call.peer.st \in {"resolved", "rejected"}
       /\ call.gas.st \in {"resolved", "rejected"}
       /\ call.blocks.st \in {"resolved", "rejected", "none"}
    THEN Resolved(Null)
    ELSE Pending

\* line 237: Promise.all(promises) of a call, looked at when the promise `last`
\* of the fan-out has just settled
FanOutAll(call, last) ==
    IF last.st = "rejected" THEN Rejected(last.val)
    ELSE IF /\ call.peer.st = "resolved"
            /\ call.gas.st = "resolved"
            /\ call.blocks.st \in {"resolved", "none"}
    THEN Resolved(Null)
    ELSE Pending

\* lines 240-247 with results[0] and results[1] exchanged
FilledStatsSwapsPeerGas(call, held) ==
    LET window == IF call.arg # Null THEN call.arg ELSE call.blocks.val
    IN  [call.stats EXCEPT !.peerCount = call.gas.val,
                           !.gasPrice = call.peer.val,
                           !.latestBlocks = window,
                           !.difficulty = getAverageDifficulty(window),
                           !.blockTimes = getBlockTimes(window),
                           !.hashRate = getHashRate(held)]

\* lines 240-247: the stats object, filled when the fan-out has resolved;
\* held is the window MixSystemStats holds at that moment
FilledStats(call, held) ==
    LET window == IF call.arg # Null THEN call.arg ELSE call.blocks.val
    IN  [call.stats EXCEPT !.peerCount = call.peer.val,
                           !.gasPrice = call.gas.val,
                           !.latestBlocks = window,
                           !.difficulty = getAverageDifficulty(window),
                           !.blockTimes = getBlockTimes(window),
                           !.hashRate = getHashRate(held)]

\* lines 237-259: the call after one promise of its fan-out has settled
\* (call already holds the settled promise).  Promise.all settles once.
AfterFanOut(call, last, held) ==
    LET all == FanOutAll(call, last)
    IN  IF call.status # "pending" \/ all.st = "pending" THEN call
        ELSE IF all.st = "resolved"
        THEN [call EXCEPT !.status = "resolved", !.stats = FilledStats(call, held),
                          !.held = held]
        ELSE [call EXCEPT !.status = "rejected", !.error = all.val]

\* line 229: getPeerCount() settles
PeerCountSettles(c, out) ==
    /\ calls[c].peer.st = "pending"
    /\ calls' = [calls EXCEPT ![c] = AfterFanOut([@ EXCEPT !.peer = out], out, cache)]
    /\ UNCHANGED <<client, ctorIn, search, nSearch, ident, nIdent, cache, nCalls, blocksCall, nBlocks, watch>>

\* line 230: getGasPrice() settles
GasPriceSettles(c, out) ==
    /\ calls[c].gas.st = "pending"
    /\ calls' = [calls EXCEPT ![c] = AfterFanOut([@ EXCEPT !.gas = out], out, cache)]
    /\ UNCHANGED <<client, ctorIn, search, nSearch, ident, nIdent, cache, nCalls, blocksCall, nBlocks, watch>>

\* line 234: getLatestBlocks() settles; a fetched window becomes the window
\* MixSystemStats holds
LatestBlocksSettles(c, out) ==
    /\ calls[c].blocks.st = "pending"
    /\ cache' = IF out.st = "resolved" THEN out.val ELSE cache
    /\ calls' = [calls EXCEPT ![c] = AfterFanOut([@ EXCEPT !.blocks = out], out, cache')]
    /\ UNCHANGED <<client, ctorIn, search, nSearch, ident, nIdent, nCalls, blocksCall, nBlocks, watch>>

-----------------------------------------------------------------------------
(* getBlocks, src/src/MixClient.js:289-311 *)

NoBlocksCall == [status |-> "idle", state |-> NoPromise, blocks |-> NoPromise,
                 result |-> Null]

\* lines 289-294: the promise is created and getState() is issued.  A new call
\* is modelled once no promise of the previous one is pending.
GetBlocks ==
    /\ client.phase = "constructed"
    /\ blocksCall.state.st # "pending"
    /\ blocksCall.blocks.st # "pending"
    /\ nBlocks < MaxBlocksCalls
    /\ nBlocks' = nBlocks + 1
    /\ blocksCall' = [NoBlocksCall EXCEPT !.status = "pending", !.state = Pending]
    /\ UNCHANGED <<client, ctorIn, search, nSearch, ident, nIdent, cache, calls, nCalls,
                   watch>>

\* lines 294-306: getState() settles.  The fulfilment handler issues
\* getLatestBlocks(); there is no rejection handler.
GetBlocksStateSettles(out) ==
    /\ blocksCall.state.st = "pending"
    /\ blocksCall' =
         IF out.st = "resolved"
         THEN [blocksCall EXCEPT !.state = out, !.blocks = Pending]
         ELSE [blocksCall EXCEPT !.state = out]
    /\ UNCHANGED <<client, ctorIn, search, nSearch, ident, nIdent, cache, calls, nCalls,
                   nBlocks, watch>>

\* lines 297-303: getLatestBlocks() settles; a fetched window becomes the
\* window MixSystemStats holds.  The fulfilment handler resolves the promise
\* with the window; there is no rejection handler.
GetBlocksLatestSettles(out) ==
    /\ blocksCall.blocks.st = "pending"
    /\ cache' = IF out.st = "resolved" THEN out.val ELSE cache
    /\ blocksCall' =
         IF out.st = "resolved"
         THEN [blocksCall EXCEPT !.blocks = out, !.status = "resolved",
                                 !.result = out.val]
         ELSE [blocksCall EXCEPT !.blocks = out]
    /\ UNCHANGED <<client, ctorIn, search, nSearch, ident, nIdent, calls, nCalls,
                   nBlocks, watch>>

-----------------------------------------------------------------------------
(* watchNetwork, src/src/MixClient.js:140-156 *)

\* What the 'latest' filter hands to the watch callback: (error, result)
FilterEvents == [error : {Null, "err1"}, result : {Null, "blockA", "blockB"}]

\* filters: the filters created, by their argument; returned: what
\* watchNetwork returned (the index of a filter); delivered: the events the
\* filter delivered; invoked: the handler invocations, in order.
NoWatch == [filters |-> <<>>, returned |-> 0, delivered |-> <<>>, invoked |-> <<>>]

Invocation(h, a) == [handler |-> h, arg |-> a]

\* lines 142-154: the filter is created, watched and returned
WatchNetwork ==
    /\ client.phase = "constructed"
    /\ watch.filters = <<>>
    /\ watch' = [watch EXCEPT !.filters = Append(@, "latest"),
                              !.returned = Len(watch.filters) + 1]
    /\ UNCHANGED <<client, ctorIn, search, nSearch, ident, nIdent, cache, calls, nCalls,
                   blocksCall, nBlocks>>

\* lines 144-152 without the return of line 147
ForwardFallsThrough(ev) ==
    IF ev.error # Null
    THEN <<Invocation("errorCallback", ev.error), Invocation("callback", ev.result)>>
    ELSE <<Invocation("callback", ev.result)>>

\* lines 144-152: the handlers the watch callback invokes for an event
Forward(ev) ==
    IF ev.error # Null
    THEN <<Invocation("errorCallback", ev.error)>>
    ELSE <<Invocation("callback", ev.result)>>

\* lines 144-152: the filter delivers an event to the watch callback
FilterDelivers(ev) ==
    /\ watch.filters # <<>>
    /\ Len(watch.delivered) < MaxEvents
    /\ watch' = [watch EXCEPT !.delivered = Append(@, ev),
                              !.invoked = @ \o Forward(ev)]
    /\ UNCHANGED <<client, ctorIn, search, nSearch, ident, nIdent, cache, calls, nCalls,
                   blocksCall, nBlocks>>

-----------------------------------------------------------------------------
(* Specifications *)

\* The asynchronous operations, on a constructed client
Init ==
    /\ client = TestClient
    /\ ctorIn = TestCtorIn
    /\ search = NoSearch
    /\ nSearch = 0
    /\ ident = NoIdent
    /\ nIdent = 0
    /\ cache = Null
    /\ calls = [c \in CallIds |-> NoCall]
    /\ nCalls = 0
    /\ blocksCall = NoBlocksCall
    /\ nBlocks = 0
    /\ watch = NoWatch

\* getSystemStats and updateBlocks
Next ==
    \/ \E c \in CallIds, w \in Windows \cup {Null} : GetSystemStats(c, w)
    \/ \E c \in CallIds, w \in Windows : UpdateBlocks(c, w)
    \/ \E c \in CallIds, out \in StateOutcomes : StateSettles(c, out)
    \/ \E c \in CallIds, out \in PeerOutcomes : PeerCountSettles(c, out)
    \/ \E c \in CallIds, out \in GasOutcomes : GasPriceSettles(c, out)
    \/ \E c \in CallIds, out \in LatestBlocksOutcomes : LatestBlocksSettles(c, out)

Spec == Init /\ [][Next]_vars

\* doSearch and getBlockchainName
NextSearch ==
    \/ \E q \in Queries : DoSearch(q)
    \/ GetBlockSettles
    \/ GetBalanceSettles
    \/ GetTransactionSettles
    \/ GetBlockchainName
    \/ \E out \in BlockFetchOutcomes : IdentifyingBlockSettles(out)

SpecSearch == Init /\ [][NextSearch]_vars

\* watchNetwork and getBlocks
NextWatch ==
    \/ WatchNetwork
    \/ \E ev \in FilterEvents : FilterDelivers(ev)
    \/ GetBlocks
    \/ \E out \in StateOutcomes : GetBlocksStateSettles(out)
    \/ \E out \in LatestBlocksOutcomes : GetBlocksLatestSettles(out)

SpecWatch == Init /\ [][NextWatch]_vars

\* The constructor
InitCtor ==
    /\ client = NoClient
    /\ ctorIn = NoCtorIn
    /\ search = NoSearch
    /\ nSearch = 0
    /\ ident = NoIdent
    /\ nIdent = 0
    /\ cache = Null
    /\ calls = [c \in CallIds |-> NoCall]
    /\ nCalls = 0
    /\ blocksCall = NoBlocksCall
    /\ nBlocks = 0
    /\ watch = NoWatch

NextCtor ==
    \E nodeURI \in NodeURIs, web3Object \in Web3Params, storage \in Storages,
       ambient \in Ambients, conn \in ConnectOutcomes :
        Construct(nodeURI, web3Object, storage, ambient, conn)

SpecCtor == InitCtor /\ [][NextCtor]_vars

-----------------------------------------------------------------------------
(* Claims *)

AllSettled(lk) == \A l \in Lookups : Settled(lk[l])

\* C1: doSearch rejects only if all three lookups failed at transport level;
\* when the lookups have settled and at least one did not fail, it has resolved
\* with the outcomes of the lookups that did not fail and empty slots for the
\* others.
C1_SearchFailsOnlyIfAllLookupsFail ==
    /\ search.status = "rejected" => \A l \in Lookups : search.lk[l].st = "rejected"
    /\ (AllSettled(search.lk) /\ \E l \in Lookups : search.lk[l].st = "resolved") =>
          /\ search.status = "resolved"
          /\ \A l \in Lookups :
                search.result[l] =
                    IF search.lk[l].st = "resolved" THEN search.lk[l].val ELSE Null

\* Exactly one lookup found something and the other two resolved not-found.
ExactlyOneFound(lk) ==
    /\ \A l \in Lookups : lk[l].st = "resolved"
    /\ Cardinality({l \in Lookups : lk[l].val # Null}) = 1

\* C2: when exactly one lookup succeeds and the other two return not-found,
\* doSearch has resolved, the slot of the successful lookup holds that lookup's
\* value and the other two slots are empty.
C2_IndependentSearchSlots ==
    ExactlyOneFound(search.lk) =>
        /\ search.status = "resolved"
        /\ \A l \in Lookups : search.result[l] = search.lk[l].val

C2_Witness ==
    /\ ExactlyOneFound(search.lk)
    /\ search.status = "resolved"
    /\ search.result.account = "e2"
    /\ search.result.block = Null
    /\ search.result.transaction = Null

\* C3: when the state fetch reports not connected, the call has rejected and
\* no peer-count, gas-price or block-window fetch was issued.
C3_ConnectivityGating ==
    \A c \in CallIds :
        (calls[c].state.st = "resolved" /\ calls[c].state.val = "notConnected") =>
            /\ calls[c].status = "rejected"
            /\ calls[c].peer.st = "none"
            /\ calls[c].gas.st = "none"
            /\ calls[c].blocks.st = "none"

FanOutFailed(call) ==
    \/ call.peer.st = "rejected"
    \/ call.gas.st = "rejected"
    \/ call.blocks.st = "rejected"

\* C4: a call one of whose fan-out fetches has failed is rejected, and stays
\* rejected whatever the other fetches do afterwards: it never holds a
\* delivered stats object.
C4_AtomicStats ==
    \A c \in CallIds :
        FanOutFailed(calls[c]) =>
            /\ calls[c].status = "rejected"
            /\ calls[c].error \in {"error:peers", "error:gas", "error:blocks"}
            /\ calls[c].stats.latestBlocks = Null

C4_Witness ==
    \E c \in CallIds :
        /\ calls[c].peer.st = "rejected"
        /\ calls[c].gas.st = "resolved"
        /\ calls[c].blocks.st = "resolved"
        /\ calls[c].status = "rejected"

\* C5: when the identifying block was fetched, getBlockchainName has resolved
\* with the registry's name for the block's hash, or with 'Unknown blockchain'
\* when the hash is not a key of the registry; it has not rejected; and this
\* holds for every call, whatever an earlier call returned.
C5_ChainIdentification ==
    (ident.fetch.st = "resolved" /\ ident.fetch.val # Null) =>
        /\ ident.status = "resolved"
        /\ ident.fetch.val = HashMix => ident.result = "Mix"
        /\ ident.fetch.val = HashEthereum => ident.result = "Ethereum"
        /\ ident.fetch.val = HashClassic => ident.result = "Ethereum Classic"
        /\ ident.fetch.val \notin {HashMix, HashEthereum, HashClassic} =>
              ident.result = "Unknown blockchain"

C5_Witness ==
    /\ nIdent = 2
    /\ ident.fetch.st = "resolved"
    /\ ident.fetch.val = "0xffff"
    /\ ident.status = "resolved"
    /\ ident.result = "Unknown blockchain"

\* C6: when the fetch of the identifying block has failed, getBlockchainName
\* has rejected.
C6_BlockFetchFailurePropagates ==
    ident.fetch.st = "rejected" => ident.status = "rejected"

DerivedMetrics(stats) == <<stats.difficulty, stats.blockTimes, stats.hashRate>>

\* C7: getSystemStats(W) and a getSystemStats() whose block-window fetch
\* returned W report the same average difficulty, block times and hash rate,
\* whatever window the client held before (here: some window was held).
C7_SuppliedWindowSameMetrics ==
    \A c, d \in CallIds :
        ( /\ calls[c].status = "resolved"
          /\ calls[c].via = "getSystemStats"
          /\ calls[c].arg # Null
          /\ calls[c].held # Null
          /\ calls[d].status = "resolved"
          /\ calls[d].arg = Null
          /\ calls[d].blocks.val = calls[c].arg ) =>
            DerivedMetrics(calls[c].stats) = DerivedMetrics(calls[d].stats)

\* The promise a call returned: its status and its stats; and its error, the
\* failure that arrived first (named when the responses hold only one failure).
Settlement(call) ==
    <<call.status, call.stats,
      IF call.peer.st = "rejected" /\ call.gas.st = "rejected" THEN "first of two"
      ELSE call.error>>

\* The provider's responses to a call.
Responses(call) == <<call.state, call.peer, call.gas, call.blocks>>

FromOneWindow(stats) ==
    \E w \in Windows :
        /\ stats.latestBlocks = w
        /\ stats.difficulty = getAverageDifficulty(w)
        /\ stats.blockTimes = getBlockTimes(w)
        /\ stats.hashRate = getHashRate(w)

\* C9: a getSystemStats call that was in flight when updateBlocks ran reports
\* a window and metrics that all come from one window.
C9_AtomicWindowReplacement ==
    \A c \in CallIds :
        (calls[c].overlapped /\ calls[c].status = "resolved") =>
            FromOneWindow(calls[c].stats)

\* None of the providers the constructor could select reports connected.
NoViableProvider(in) ==
    /\ ~(TruthyWeb3(in.web3Object) /\ in.web3Object.connected)
    /\ ~(TruthyWeb3(in.conn) /\ in.conn.connected)
    /\ ~(TruthyWeb3(in.ambient) /\ in.ambient.connected)

\* C10: the constructor throws when no provider is selected or the selected
\* one reports not connected, and then instantiates neither component; a
\* constructed client holds one provider, which reported connected.
C10_NoHalfConnectedClient ==
    client.phase # "none" =>
        /\ client.phase \in {"constructed", "threw"}
        /\ client.phase = "constructed" =>
              /\ client.web3.src \in {"param", "http", "ambient"}
              /\ client.web3.connected
              /\ client.systemStats
              /\ client.mixSearch
        /\ client.phase = "threw" => ~client.systemStats /\ ~client.mixSearch
        /\ (client.web3.src \in {"null", "undeclared"} \/ ~client.web3.connected) =>
              client.phase = "threw"
        /\ NoViableProvider(ctorIn) => client.phase = "threw"

C10_Witness ==
    /\ client.phase = "threw"
    /\ client.web3 = Web3("http", FALSE)
    /\ ctorIn.storage = "http://stored"
    /\ ctorIn.ambient = Web3("ambient", TRUE)

\* An explicit node URI is available: the parameter, or the stored value.
URIAvailable(in) ==
    \/ TruthyStr(in.nodeURI)
    \/ in.storage # Undeclared /\ TruthyStr(in.storage)

\* C11: a web3 object given as parameter is the provider and no URI
\* connection is attempted; otherwise an available node URI is connected to
\* (the parameter, the stored value only when no parameter was given) and the
\* provider is never the ambient one; the ambient provider is selected only
\* when neither a web3 object nor a URI is available.
C11_ProviderPrecedence ==
    client.phase # "none" =>
        /\ TruthyWeb3(ctorIn.web3Object) =>
              /\ ctorIn.conn = ConnectNotCalled
              /\ client.web3 = ctorIn.web3Object
        /\ (~TruthyWeb3(ctorIn.web3Object) /\ URIAvailable(ctorIn)) =>
              /\ ctorIn.conn # ConnectNotCalled
              /\ ctorIn.uri = IF TruthyStr(ctorIn.nodeURI) THEN ctorIn.nodeURI
                              ELSE ctorIn.storage
              /\ client.web3.src # "ambient"
        /\ client.web3.src = "ambient" =>
              ~TruthyWeb3(ctorIn.web3Object) /\ ~URIAvailable(ctorIn)

C11_Witness ==
    /\ client.phase = "constructed"
    /\ client.web3 = Web3("http", TRUE)
    /\ ctorIn.nodeURI = ""
    /\ ctorIn.uri = "http://stored"
    /\ ctorIn.ambient = Web3("ambient", TRUE)

\* The handler invocations owed to a sequence of events: for each event, in
\* order, errorCallback with the error when there is one, callback with the
\* result otherwise.
RECURSIVE Owed(_)
Owed(evs) ==
    IF evs = <<>> THEN <<>>
    ELSE <<IF Head(evs).error = Null
           THEN Invocation("callback", Head(evs).result)
           ELSE Invocation("errorCallback", Head(evs).error)>> \o Owed(Tail(evs))

\* C12: watchNetwork creates one 'latest' filter and returns it; for every
\* event the filter delivers exactly one handler is invoked, errorCallback
\* with the error or else callback with the result, in delivery order.
C12_WatchForwardsEachEvent ==
    /\ Len(watch.filters) <= 1
    /\ watch.filters # <<>> => watch.filters = <<"latest">> /\ watch.returned = 1
    /\ Len(watch.invoked) = Len(watch.delivered)
    /\ watch.invoked = Owed(watch.delivered)

C12_Witness ==
    /\ watch.returned = 1
    /\ Len(watch.delivered) = 3
    /\ watch.delivered[1].error = "err1"
    /\ watch.delivered[1].result = "blockA"
    /\ watch.delivered[2].error = Null
    /\ watch.invoked[1] = Invocation("errorCallback", "err1")
    /\ watch.invoked[2].handler = "callback"

AnyFetchFailed(call) == call.state.st = "rejected" \/ FanOutFailed(call)

\* C13: a getSystemStats call one of whose provider calls failed, the state
\* fetch included, is rejected; and a call none of whose provider calls is
\* pending any more has settled.
C13_StatsFailuresSurface ==
    \A c \in CallIds :
        /\ AnyFetchFailed(calls[c]) => calls[c].status = "rejected"
        /\ Quiescent(calls[c]) => calls[c].status \in {"resolved", "rejected"}

FanOutIssued(call) ==
    \/ call.peer.st # "none"
    \/ call.gas.st # "none"
    \/ call.blocks.st # "none"

\* C14: the peer-count, gas-price and block-window fetches of a call are
\* issued only after its state fetch has resolved, and its stats are filled
\* only after all the fetches of its fan-out have resolved.
C14_StateBeforeFanOut ==
    \A c \in CallIds :
        /\ FanOutIssued(calls[c]) => calls[c].state.st = "resolved"
        /\ (calls[c].status = "resolved" \/ calls[c].stats.latestBlocks # Null) =>
              /\ calls[c].peer.st = "resolved"
              /\ calls[c].gas.st = "resolved"
              /\ calls[c].blocks.st = IF calls[c].arg = Null THEN "resolved" ELSE "none"

C14_Witness ==
    \E c \in CallIds :
        /\ calls[c].status = "resolved"
        /\ calls[c].arg = Null
        /\ calls[c].state.val = "connected"
        /\ calls[c].blocks.st = "resolved"

\* C15: doSearch issues its three lookups together; while no lookup has
\* failed and one is still pending the call is pending, whatever the others
\* returned (a not-found ends nothing); it resolves only when all three have
\* resolved.
C15_NotFoundAbortsNothing ==
    search.status # "idle" =>
        /\ \A l \in Lookups : search.lk[l].st # "none"
        /\ search.status = "resolved" => \A l \in Lookups : search.lk[l].st = "resolved"
        /\ ( /\ \E l \in Lookups : search.lk[l].st = "pending"
             /\ \A l \in Lookups : search.lk[l].st # "rejected" ) =>
              search.status = "pending"

C15_Witness ==
    /\ search.status = "pending"
    /\ search.lk["block"] = Resolved(Null)
    /\ search.lk["transaction"] = Resolved(Null)
    /\ search.lk["account"].st = "pending"

\* A step of call c itself (not the mark another call's updateBlocks leaves).
OwnStep(c) == [calls'[c] EXCEPT !.overlapped = calls[c].overlapped] # calls[c]

\* C16: the block window is fetched if and only if no window was supplied;
\* with a window supplied the stats carry that window, and a direct
\* getSystemStats call leaves the held window alone; without one they carry
\* the fetched window; peer count and gas price are fetched either way and
\* land in their own fields.
C16_WindowFetchedIffNotSupplied ==
    /\ [](\A c \in CallIds :
            /\ calls[c].arg # Null => calls[c].blocks.st = "none"
            /\ calls[c].state.st = "resolved" =>
                  /\ calls[c].peer.st # "none"
                  /\ calls[c].gas.st # "none"
                  /\ calls[c].arg = Null => calls[c].blocks.st # "none"
            /\ calls[c].status = "resolved" =>
                  /\ calls[c].stats.latestBlocks =
                        IF calls[c].arg # Null THEN calls[c].arg ELSE calls[c].blocks.val
                  /\ calls[c].stats.peerCount = calls[c].peer.val
                  /\ calls[c].stats.gasPrice = calls[c].gas.val)
    /\ [][\A c \in CallIds :
            ( /\ calls'[c].via = "getSystemStats"
              /\ calls'[c].arg # Null
              /\ OwnStep(c) ) => cache' = cache]_vars

C16_Witness ==
    \E c, d \in CallIds :
        /\ calls[c].status = "resolved"
        /\ calls[c].via = "getSystemStats"
        /\ calls[c].arg = "W1"
        /\ calls[c].stats.latestBlocks = "W1"
        /\ calls[d].status = "resolved"
        /\ calls[d].arg = Null
        /\ calls[d].stats.latestBlocks = "W2"
        /\ calls[d].stats.peerCount = "peers:5"

\* C17: the stats of every resolved call come from the one window they
\* report, whatever window the client held when they were filled (here: some
\* window was held).
C17_StatsInternallyConsistent ==
    \A c \in CallIds :
        (calls[c].status = "resolved" /\ calls[c].held # Null) =>
            FromOneWindow(calls[c].stats)

\* C18: a resolved doSearch result has exactly the slots block, account and
\* transaction; when all three lookups return not-found the call resolves
\* with the three slots empty.
C18_SearchResultShape ==
    /\ search.status = "resolved" => DOMAIN search.result = Lookups
    /\ (\A l \in Lookups : search.lk[l].st = "resolved" /\ search.lk[l].val = Null) =>
          /\ search.status = "resolved"
          /\ \A l \in Lookups : search.result[l] = Null

C18_Witness ==
    /\ search.status = "resolved"
    /\ \A l \in Lookups : search.lk[l] = Resolved(Null)
    /\ search.result = NoResult

\* C19: when the fetch of the identifying block resolves with no block,
\* getBlockchainName has resolved with 'Unknown blockchain'.
C19_MissingBlockIsUnknown ==
    (ident.fetch.st = "resolved" /\ ident.fetch.val = Null) =>
        /\ ident.status = "resolved"
        /\ ident.result = "Unknown blockchain"

\* C20: getBlocks issues the latest-blocks fetch only after the state fetch
\* has resolved, resolves with exactly the fetched window, and is rejected
\* when the state fetch or the latest-blocks fetch has failed.
C20_GetBlocksSurfacesFailures ==
    /\ blocksCall.blocks.st # "none" => blocksCall.state.st = "resolved"
    /\ blocksCall.status = "resolved" =>
          blocksCall.blocks.st = "resolved" /\ blocksCall.result = blocksCall.blocks.val
    /\ (blocksCall.state.st = "rejected" \/ blocksCall.blocks.st = "rejected") =>
          blocksCall.status = "rejected"

====
